---- MODULE Spec2Model ----
(***************************************************************************)
(* One run of the offensive-comment analyzer (assignment.py): module-level *)
(* configuration, main()'s straight-line pipeline load_file ->             *)
(* apply_profanity_filter -> process_comments -> report_and_save ->        *)
(* optional filtered listing -> optional chart.  The environment (the      *)
(* GOOGLE_API_KEY variable, the command line, the input file, the remote   *)
(* model's answers, the chart backend) is drawn nondeterministically.      *)
(***************************************************************************)
EXTENDS Integers, Sequences, FiniteSets, TLC

\* Largest number of rows of an input table.
MaxRows == 2

\* Python's None and pandas' missing-cell marker.
Null == "<None>"
NaN == "<NaN>"

(***************************************************************************)
(* Values                                                                  *)
(***************************************************************************)

\* The value bound to `result`: a dict with the three keys, or some other
\* Python object (kind "scalar": only eval can produce one).
Dict(off, type, expl) ==
    [kind |-> "dict", is_offensive |-> off, offense_type |-> type, explanation |-> expl]

Scalar == [kind |-> "scalar", is_offensive |-> FALSE, offense_type |-> Null, explanation |-> "42"]

\* line 65: the result of a record the pre-filter did not flag.
NoProfanityResult == Dict(FALSE, Null, "No profanity detected")

\* line 56: the result analyze_comment returns from its except branch.
GeminiFailedResult == Dict(FALSE, Null, "Gemini analysis failed")

\* What the remote model can do with one request: raise, or answer with a text.
RemoteError == "<generate_content raises>"
PyToxic == "{\"is_offensive\": True, \"offense_type\": \"toxicity\", \"explanation\": \"Contains insult\"}"
PyProfanity == "{\"is_offensive\": True, \"offense_type\": \"profanity\", \"explanation\": \"Swearing\"}"
PyNoType == "{\"is_offensive\": True, \"offense_type\": None, \"explanation\": \"Rude\"}"
PyClean == "{\"is_offensive\": False, \"offense_type\": \"none\", \"explanation\": \"Mild\"}"
JsonFormat == "{\"is_offensive\": true, \"offense_type\": \"toxicity\", \"explanation\": \"Contains insult\"}"
NumberText == "42"

ResponseTexts == {PyToxic, PyProfanity, PyNoType, PyClean, JsonFormat, NumberText}

\* The marker kept in `responses` for a record no request was made for.
NotCalled == "<not called>"

\* line 52: eval(response.text.strip()) raises (NameError on JSON's true/false/null).
EvalRaises(text) == text = JsonFormat

\* line 52: the object eval returns when it does not raise.
EvalValue(text) ==
    CASE text = PyToxic -> Dict(TRUE, "toxicity", "Contains insult")
      [] text = PyProfanity -> Dict(TRUE, "profanity", "Swearing")
      [] text = PyNoType -> Dict(TRUE, Null, "Rude")
      [] text = PyClean -> Dict(FALSE, "none", "Mild")
      [] OTHER -> Scalar

\* lines 50-56: the try body raised an Exception.
CallFailed(outcome) == outcome = RemoteError \/ (outcome # RemoteError /\ EvalRaises(outcome))

AnalyzeWrongFallback(outcome) ==
    IF CallFailed(outcome) THEN NoProfanityResult ELSE EvalValue(outcome)

\* lines 40-56: analyze_comment, given what the remote call did.
analyze_comment(outcome) ==
    IF CallFailed(outcome) THEN GeminiFailedResult ELSE EvalValue(outcome)

\* line 9: the key handed to genai.configure.
PlaceholderKey == "YOUR_GEMINI_API_KEY"
EnvKey == "<key from GOOGLE_API_KEY>"

\* lines 10-11, 51: the service answers only a real key; a request made with the
\* placeholder is rejected, which generate_content reports by raising.
RemoteOutcomes(key) ==
    IF key = PlaceholderKey THEN {RemoteError} ELSE {RemoteError} \cup ResponseTexts

(***************************************************************************)
(* Input                                                                   *)
(***************************************************************************)

Texts == {"hello", "you idiot"}

\* line 36: profanity.contains_profanity(str(x)) against the loaded lexicon.
contains_profanity(x) == x = "you idiot"

Labels == 0 .. MaxRows

Injective(s) == \A a, b \in DOMAIN s : s[a] = s[b] => a = b

\* pandas' RangeIndex(n), as labels 0 .. n-1.
RangeIndex(n) == [k \in 1 .. n |-> k - 1]

SeqsUpTo(S, n) == UNION {[1 .. m -> S] : m \in 0 .. n}

\* lines 20, 22: the tables read_csv and read_json produce.  read_csv labels the
\* rows 0 .. n-1; read_json takes the row labels of a column-oriented document
\* from the document itself (distinct, otherwise arbitrary).
Tables(kind) ==
    {[index |-> ix, comment_text |-> tx, has_username |-> u] :
        ix \in {s \in SeqsUpTo(Labels, MaxRows) :
                    /\ Injective(s)
                    /\ kind = "csv" => s = RangeIndex(Len(s))},
        tx \in SeqsUpTo(Texts, MaxRows), u \in BOOLEAN}

NoTable == [index |-> <<>>, comment_text |-> <<>>, has_username |-> FALSE]

\* lines 14-31: what load_file can meet at args.file.
Files ==
    {[kind |-> k, table |-> NoTable] : k \in {"missing", "unsupported", "malformed"}}
    \cup UNION {{[kind |-> k, table |-> t] :
                    t \in {t \in Tables(k) : Len(t.index) = Len(t.comment_text)}} :
                 k \in {"csv", "json"}}

VARIABLES pc, env_key, args, file, api_key, df, pre_filtered, results, requests,
          responses, columns, table, output_file, output_writes, offensive,
          offense_counts, chart, exit_status, log

vars == <<pc, env_key, args, file, api_key, df, pre_filtered, results, requests,
          responses, columns, table, output_file, output_writes, offensive,
          offense_counts, chart, exit_status, log>>

Init ==
    /\ pc = "configure"
    /\ env_key \in BOOLEAN
    /\ args \in [filter : BOOLEAN, chart : {Null, "bar", "pie"}]
    /\ file \in Files
    /\ api_key = Null
    /\ df = NoTable
    /\ pre_filtered = <<>>
    /\ results = <<>>
    /\ requests = <<>>
    /\ responses = <<>>
    /\ columns = Null
    /\ table = <<>>
    /\ output_file = <<>>
    /\ output_writes = 0
    /\ offensive = <<>>
    /\ offense_counts = <<>>
    /\ chart = Null
    /\ exit_status = Null
    /\ log = {}

\* lines 9-11: module-level configuration.
genai_configure ==
    /\ pc = "configure"
    /\ api_key' = IF env_key THEN EnvKey ELSE PlaceholderKey
    /\ pc' = "load"
    /\ UNCHANGED <<env_key, args, file, df, pre_filtered, results, requests, responses,
                   columns, table, output_file, output_writes, offensive,
                   offense_counts, chart, exit_status, log>>

\* lines 15-17, 23-25, 29-31: the message load_file prints before returning None.
LoadMessage(kind) ==
    CASE kind = "missing" -> "File not found."
      [] kind = "unsupported" -> "Unsupported file type."
      [] OTHER -> "Error loading file"

\* lines 103-105 with load_file (14-31): a failed load is reported and main
\* returns; a loaded table goes on to the pre-filter.
load_file ==
    /\ pc = "load"
    /\ IF file.kind \in {"csv", "json"}
       THEN /\ df' = file.table
            /\ log' = log \cup {"Loaded"}
            /\ pc' = "prefilter"
            /\ exit_status' = exit_status
       ELSE /\ df' = df
            /\ log' = log \cup {LoadMessage(file.kind)}
            /\ pc' = "done"
            /\ exit_status' = "0"
    /\ UNCHANGED <<env_key, args, file, api_key, pre_filtered, results, requests,
                   responses, columns, table, output_file, output_writes, offensive,
                   offense_counts, chart>>

\* line 107 with apply_profanity_filter (34-37): the pre_filtered column.
apply_profanity_filter ==
    /\ pc = "prefilter"
    /\ pre_filtered' = [k \in DOMAIN df.comment_text |-> contains_profanity(df.comment_text[k])]
    /\ pc' = "process"
    /\ UNCHANGED <<env_key, args, file, api_key, df, results, requests, responses,
                   columns, table, output_file, output_writes, offensive,
                   offense_counts, chart, exit_status, log>>

NeverClassify(k) == FALSE

AlwaysClassify(k) == TRUE

\* line 62: the branch process_comments takes for row k.
ShouldClassify(k) == pre_filtered[k]

CallsMadeWithRetry(k, outcome) == IF CallFailed(outcome) THEN <<k, k>> ELSE <<k>>

\* lines 50-51: the generate_content calls one analyze_comment call makes for
\* row k: one, whatever comes of it.
CallsMade(k, outcome) == <<k>>

\* lines 61-66: one iteration of process_comments' loop, for the next row in
\* input order.  A flagged row costs one generate_content call (line 51).
process_comments_loop ==
    /\ pc = "process"
    /\ Len(results) < Len(df.comment_text)
    /\ LET k == Len(results) + 1 IN
        IF ShouldClassify(k)
        THEN \E outcome \in RemoteOutcomes(api_key) :
                /\ results' = Append(results, analyze_comment(outcome))
                /\ requests' = requests \o CallsMade(k, outcome)
                /\ responses' = Append(responses, outcome)
                /\ log' = IF CallFailed(outcome) THEN log \cup {"Gemini error"} ELSE log
        ELSE /\ results' = Append(results, NoProfanityResult)
             /\ requests' = requests
             /\ responses' = Append(responses, NotCalled)
             /\ log' = log
    /\ UNCHANGED <<pc, env_key, args, file, api_key, df, pre_filtered, columns, table,
                   output_file, output_writes, offensive, offense_counts, chart,
                   exit_status>>

\* line 67: the columns pd.DataFrame(results) gives a list.  A list whose first
\* element is a dict must hold dicts only (pandas asks each element for its
\* keys and raises on any other object); a list whose first element is not
\* list-like becomes the single column 0; an empty list has no columns.
ResultColumns(res) ==
    IF res = <<>> THEN "none"
    ELSE IF res[1].kind = "dict"
         THEN IF \A k \in DOMAIN res : res[k].kind = "dict" THEN "fields" ELSE "raises"
         ELSE "col0"

\* The position of label l in index ix, 0 when absent.
PositionOf(l, ix) == IF \E k \in DOMAIN ix : ix[k] = l
                     THEN CHOOSE k \in DOMAIN ix : ix[k] = l ELSE 0

\* line 68: pd.concat([df, result_df], axis=1) joins on the row labels (outer
\* join): df's labels in order, then result_df's labels 0 .. n-1 that df lacks.
\* A row names its df row (left) and its result_df row (right), 0 when missing.
\* result_df has no rows to join when results is empty.
Concat(ix, n) ==
    LET extra == SelectSeq(RangeIndex(n), LAMBDA l : PositionOf(l, ix) = 0)
        labels == ix \o extra
    IN [k \in 1 .. Len(labels) |->
            [label |-> labels[k],
             left |-> PositionOf(labels[k], ix),
             right |-> IF labels[k] < n THEN labels[k] + 1 ELSE 0]]

\* lines 67-68 (and 108): the loop is over; build result_df and the analyzed
\* table, or die of pd.DataFrame's exception.
process_comments_concat ==
    /\ pc = "process"
    /\ Len(results) = Len(df.comment_text)
    /\ columns' = ResultColumns(results)
    /\ IF ResultColumns(results) = "raises"
       THEN /\ pc' = "crashed"
            /\ exit_status' = "1"
            /\ table' = table
       ELSE /\ pc' = "report"
            /\ exit_status' = exit_status
            /\ table' = Concat(df.index, Len(results))
    /\ UNCHANGED <<env_key, args, file, api_key, df, pre_filtered, results, requests,
                   responses, output_file, output_writes, offensive, offense_counts,
                   chart, log>>

NaNResult == [kind |-> "nan", is_offensive |-> FALSE, offense_type |-> NaN, explanation |-> NaN]

\* line 72: the cells of one row of the analyzed table, as to_csv writes them.
Cells(row) ==
    [comment_text |-> IF row.left = 0 THEN NaN ELSE df.comment_text[row.left],
     pre_filtered |-> IF row.left = 0 THEN NaN
                      ELSE IF pre_filtered[row.left] THEN "True" ELSE "False",
     result |-> IF row.right = 0 THEN NaNResult ELSE results[row.right]]

\* line 74: df["is_offensive"] == True, for one row.
IsOffensive(row) == row.right # 0 /\ results[row.right].is_offensive

\* The offense_type cell of a row.
OffenseType(row) == IF row.right = 0 THEN NaN ELSE results[row.right].offense_type

\* lines 76, 82: Series.value_counts() counts each value and drops missing ones.
value_counts(rows) ==
    [t \in {OffenseType(rows[k]) : k \in DOMAIN rows} \ {Null, NaN} |->
        Cardinality({k \in DOMAIN rows : OffenseType(rows[k]) = t})]

\* line 109 with report_and_save (71-78): write the file, then select the
\* offensive rows and count their types.  A table without an is_offensive
\* column raises KeyError at line 74, after the file is written.
report_and_save ==
    /\ pc = "report"
    /\ output_file' = [k \in DOMAIN table |-> Cells(table[k])]
    /\ output_writes' = output_writes + 1
    /\ log' = log \cup {"Saved"}
    /\ IF columns = "fields"
       THEN /\ offensive' = SelectSeq(table, IsOffensive)
            /\ offense_counts' = value_counts(SelectSeq(table, IsOffensive))
            /\ pc' = "filter"
            /\ exit_status' = exit_status
       ELSE /\ offensive' = offensive
            /\ offense_counts' = offense_counts
            /\ pc' = "crashed"
            /\ exit_status' = "1"
    /\ UNCHANGED <<env_key, args, file, api_key, df, pre_filtered, results, requests,
                   responses, columns, table, chart>>

\* lines 111-113: --filter prints four columns of the offensive rows; selecting
\* a username column the input did not have raises KeyError.
main_print_offensive ==
    /\ pc = "filter"
    /\ IF args.filter /\ ~df.has_username
       THEN pc' = "crashed" /\ exit_status' = "1" /\ log' = log
       ELSE /\ pc' = "chart"
            /\ exit_status' = exit_status
            /\ log' = IF args.filter THEN log \cup {"Offensive Comments"} ELSE log
    /\ UNCHANGED <<env_key, args, file, api_key, df, pre_filtered, results, requests,
                   responses, columns, table, output_file, output_writes, offensive,
                   offense_counts, chart>>

\* lines 115-116 with plot_offense_distribution (81-91): nothing catches what
\* the plotting calls raise; without --chart main just returns.
plot_offense_distribution ==
    /\ pc = "chart"
    /\ IF args.chart = Null
       THEN /\ chart' = chart
            /\ offense_counts' = offense_counts
            /\ pc' = "done"
            /\ exit_status' = "0"
       ELSE \E rendered \in BOOLEAN :
            /\ offense_counts' = value_counts(offensive)
            /\ chart' = IF rendered THEN args.chart ELSE "failed"
            /\ pc' = IF rendered THEN "done" ELSE "crashed"
            /\ exit_status' = IF rendered THEN "0" ELSE "1"
    /\ UNCHANGED <<env_key, args, file, api_key, df, pre_filtered, results, requests,
                   responses, columns, table, output_file, output_writes, offensive,
                   log>>

Next ==
    \/ genai_configure
    \/ load_file
    \/ apply_profanity_filter
    \/ process_comments_loop
    \/ process_comments_concat
    \/ report_and_save
    \/ main_print_offensive
    \/ plot_offense_distribution

Spec == Init /\ [][Next]_vars

(***************************************************************************)
(* Properties                                                              *)
(***************************************************************************)

\* Row k was sent to the remote model and the call, or eval of its answer, raised.
Failed(k) == responses[k] # NotCalled /\ CallFailed(responses[k])

\* The result row j owes to its own pre-filter flag and its own remote outcome.
OwnResult(j) ==
    IF responses[j] = NotCalled THEN NoProfanityResult
    ELSE IF CallFailed(responses[j]) THEN GeminiFailedResult ELSE EvalValue(responses[j])

FlaggedRows == {k \in DOMAIN pre_filtered : pre_filtered[k]}

LoadFailed == file.kind \in {"missing", "unsupported", "malformed"}

Ended == pc \in {"done", "crashed"}

\* C1: every processed record the pre-filter did not flag has exactly the fixed
\* result {False, None, "No profanity detected"}, and no request to the remote
\* model was ever made for it, wherever it stands in the table.
C1_UnflaggedDefaultNoCall ==
    \A k \in DOMAIN results :
        ~pre_filtered[k] =>
            /\ results[k] = Dict(FALSE, Null, "No profanity detected")
            /\ responses[k] = NotCalled
            /\ \A j \in DOMAIN requests : requests[j] # k

\* C1 witness: an unflagged record was processed after a flagged one whose
\* request was answered.
C1_Witness ==
    /\ Len(results) = 2
    /\ pre_filtered[1] /\ ~pre_filtered[2]
    /\ requests = <<1>>
    /\ responses[1] = PyProfanity

TableBuilt == columns \notin {Null, "raises"}

\* C3: the table process_comments returns has as many rows as the input, and
\* its row i holds input row i with the result computed for input row i.
C3_RowsPreserved ==
    TableBuilt =>
        /\ Len(table) = Len(df.comment_text)
        /\ \A i \in DOMAIN table : table[i].left = i /\ table[i].right = i

\* A Classification Result: exactly the three fields, of the stated types.
WellFormed(r) ==
    /\ r.kind = "dict"
    /\ r.is_offensive \in BOOLEAN
    /\ r.explanation # Null

\* C4: whatever the remote call does, analyze_comment hands back a well-formed
\* Classification Result.
C4_AlwaysWellFormed ==
    \A k \in DOMAIN results : responses[k] # NotCalled => WellFormed(results[k])

\* C5: each flagged record that has been processed accounts for exactly one
\* request, failed or not, no other record for any; once the loop is over the
\* number of requests is the number of flagged records.
C5_OneRequestPerFlagged ==
    /\ \A j \in DOMAIN requests : requests[j] \in FlaggedRows
    /\ \A k \in DOMAIN pre_filtered :
          Cardinality({j \in DOMAIN requests : requests[j] = k})
              = IF pre_filtered[k] /\ k <= Len(results) THEN 1 ELSE 0
    /\ pc \notin {"configure", "load", "prefilter", "process"}
          => Len(requests) = Cardinality(FlaggedRows)

\* C5 witness: a run that ended after two flagged records, the first request
\* failing and the second answered.
C5_Witness ==
    /\ pc = "done"
    /\ Cardinality(FlaggedRows) = 2
    /\ responses = <<RemoteError, PyClean>>
    /\ requests = <<1, 2>>

RECURSIVE SumOver(_, _)
SumOver(f, S) ==
    IF S = {} THEN 0
    ELSE LET t == CHOOSE t \in S : TRUE IN f[t] + SumOver(f, S \ {t})

\* report_and_save passed line 76: the aggregate exists.
AggregateComputed == output_writes = 1 /\ columns = "fields"

\* C6: the aggregate's counts sum to the number of offensive rows, and its keys
\* are the offense_type values of the offensive rows, None included.
C6_AggregateMatches ==
    AggregateComputed =>
        /\ SumOver(offense_counts, DOMAIN offense_counts) = Len(offensive)
        /\ DOMAIN offense_counts = {OffenseType(offensive[k]) : k \in DOMAIN offensive}

\* C7: a run whose input did not load reports it, never pre-filters, requests,
\* writes or charts, and ends with a failure status.
C7_LoadFailureIsFatal ==
    LoadFailed =>
        /\ pc \in {"configure", "load", "done"}
        /\ pre_filtered = <<>> /\ requests = <<>> /\ output_writes = 0 /\ chart = Null
        /\ Ended => LoadMessage(file.kind) \in log /\ exit_status = "1"

\* C8: without GOOGLE_API_KEY no record is pre-filtered or classified and no
\* request is attempted.
C8_MissingKeyAborts ==
    ~env_key => pre_filtered = <<>> /\ results = <<>> /\ requests = <<>>

\* C9: a chart is attempted only once the file is written, and a chart that
\* fails to render neither aborts the run nor changes its exit status.
C9_ChartFailureRecovered ==
    /\ chart # Null => output_writes = 1
    /\ chart = "failed" => pc # "crashed" /\ exit_status # "1"

\* C10: the report starts only when every record has its result, and a run
\* whose input loaded ends with the output file written exactly once.
C10_ReportAlwaysWritten ==
    /\ output_writes > 0 => Len(results) = Len(df.comment_text)
    /\ (~LoadFailed /\ Ended) => output_writes = 1
====
